---- MODULE Spec2Model ----
(***************************************************************************)
(* A model of renpy/display/imagelike.py: the Solid displayable and the    *)
(* Frame displayable (nine-slice compositor) with its two draw paths, the  *)
(* texture path inside Frame.render and the software path inside           *)
(* Frame.sw_render.                                                        *)
(*                                                                         *)
(* One displayable is constructed (Init), then one render call is made on  *)
(* it.  render keeps no state between calls, so a single call per object   *)
(* shows everything a later call could.  Sizes are integers, on which      *)
(* Python's int() is the identity; ratios are exact fractions <<num, den>>.*)
(***************************************************************************)
EXTENDS Integers, Sequences, FiniteSets

VARIABLES self, pc, call, rv

vars == <<self, pc, call, rv>>

----------------------------------------------------------------------------
\* Bounds of the exploration.

\* Largest inset (left, top, right, bottom) given to Frame.
MaxInset == 1
\* Largest source raster extent (crend.get_size()).
MaxSrc == 4
\* Largest requested width and height of a Frame render.
MaxDst == 4
\* Largest minimum the style gives a Solid (xyminimums).
MaxMinimum == 1
\* Largest extent of one drawable pixel in virtual units (draw_to_virt).
MaxPixel == 2
\* Largest width and height of a Solid render, besides 500.
MaxSolid == 11
\* The wide exploration: a thin strip, long enough for 10 -> 15.
MaxWideSrc == 10
MaxWideDst == 15
MaxThin == 2

Insets == 0..MaxInset
SrcSizes == 0..MaxSrc
DstSizes == 0..MaxDst
Minimums == 0..MaxMinimum
PixelSizes == 1..MaxPixel
SolidSizes == (0..MaxSolid) \cup {500}

\* tile_ratio values, as exact fractions <<numerator, denominator>>.
TileRatios == {<<0, 1>>, <<1, 2>>, <<51, 100>>, <<1, 1>>}
\* Frame.tile_ratio's default (class attribute and __init__ default), 0.5.
DefaultRatio == <<1, 2>>
\* Frame.tile is False ("off"), True ("True") or "integer".

None == "None"
Colors == {"color"}

----------------------------------------------------------------------------
\* Python arithmetic.

Max(a, b) == IF a >= b THEN a ELSE b

Min3(a, b, c) == IF a <= b /\ a <= c THEN a ELSE IF b <= c THEN b ELSE c

\* Python's a // b on integers (floor division), b # 0.
FloorDiv(a, b) == IF b > 0 THEN a \div b ELSE (0 - a) \div (0 - b)

\* Python's a % b on integers: the remainder takes the sign of b.
PyMod(a, b) == a - b * FloorDiv(a, b)

\* Python's m / float(s) < ratio, with ratio = <<num, den>>, den > 0, s # 0.
LessThanRatio(m, s, ratio) ==
    IF s > 0 THEN m * ratio[2] < ratio[1] * s
    ELSE (0 - m) * ratio[2] < ratio[1] * (0 - s)

----------------------------------------------------------------------------
\* Frame.render: the clamped borders.

\* Mutant of BorderExtent: the source's width is left out of the clamp.
BorderExtentNoSource(bw, sw, dw) == IF bw <= dw THEN bw ELSE dw

\* xborder = min(bw, sw - 2, dw)
BorderExtent(bw, sw, dw) == Min3(bw, sw - 2, dw)

\* Mutant of BorderShare: the share is rounded up instead of down.
BorderShareCeil(inset, border, bw) ==
    IF border # 0 /\ bw # 0 THEN 0 - FloorDiv(0 - inset * border, bw) ELSE 0

\* left = self.left * xborder // bw if xborder and bw, else 0
BorderShare(inset, border, bw) ==
    IF border # 0 /\ bw # 0 THEN FloorDiv(inset * border, bw) ELSE 0

\* The four clamped borders for source sw x sh and destination dw x dh.
ClampedBorders(f, sw, sh, dw, dh) ==
    LET bw == f.left + f.right
        bh == f.top + f.bottom
        xborder == BorderExtent(bw, sw, dw)
        yborder == BorderExtent(bh, sh, dh)
    IN  [left |-> BorderShare(f.left, xborder, bw),
         right |-> BorderShare(f.right, xborder, bw),
         top |-> BorderShare(f.top, yborder, bh),
         bottom |-> BorderShare(f.bottom, yborder, bh)]

----------------------------------------------------------------------------
\* The draw closures.  e is the environment a closure captures:
\* [sw, sh, dw, dh, tile, tile_ratio].

\* Mutant of NearSide: a negative offset is measured from the near edge too.
NearSideAbs(v, size) == IF v >= 0 THEN v ELSE 0 - v

\* The left or top side of a region: a non-negative offset is measured from
\* the near edge, a negative one from the far edge.
NearSide(v, size) == IF v >= 0 THEN v ELSE size + v

\* Mutant of FarSide: offset zero is the near edge, not the far one.
FarSideNonNegative(v, size) == IF v >= 0 THEN v ELSE size + v

\* The right or bottom side: a positive offset is measured from the near
\* edge, zero or a negative one from the far edge.
FarSide(v, size) == IF v > 0 THEN v ELSE size + v

\* xtiles = max(1, cdw // csw + (1 if cdw % csw else 0))
TileCount(d, s) == Max(1, FloorDiv(d, s) + (IF PyMod(d, s) # 0 THEN 1 ELSE 0))

\* Mutant of IntegerTileCount: a leftover equal to the ratio drops the tile.
IntegerTileCountTie(d, s, ratio) ==
    IF ~LessThanRatio(PyMod(d, s), s, ratio)
       /\ PyMod(d, s) * ratio[2] # ratio[1] * s
    THEN TileCount(d, s)
    ELSE Max(1, TileCount(d, s) - 1)

\* if cdw % csw / float(csw) < self.tile_ratio: xtiles = max(1, xtiles - 1)
IntegerTileCount(d, s, ratio) ==
    IF LessThanRatio(PyMod(d, s), s, ratio)
    THEN Max(1, TileCount(d, s) - 1)
    ELSE TileCount(d, s)

\* The tile counts of one cell, <<xtiles, ytiles>>: the integer adjustment is
\* made on both axes whenever either axis leaves a remainder.
TileCounts(tile, ratio, cdw, cdh, csw, csh) ==
    IF tile = "integer" /\ (PyMod(cdw, csw) # 0 \/ PyMod(cdh, csh) # 0)
    THEN <<IntegerTileCount(cdw, csw, ratio), IntegerTileCount(cdh, csh, ratio)>>
    ELSE <<TileCount(cdw, csw), TileCount(cdh, csh)>>

\* The record of one cell that reached crend.subsurface / source.subsurface:
\* source rectangle (sx, sy, sw, sh), destination offset (dx, dy) and wanted
\* size (dw, dh), whether it was tiled, the tile counts, the size (tw, th) of
\* the tiled render or surface, whether a scale pass was made, the size
\* (w, h) of what is blitted, and the call of draw_pattern that drew it.
Cell(sx, sy, csw, csh, dx, dy, cdw, cdh, tiled, counts, tw, th, scaled, w, h) ==
    [sx |-> sx, sy |-> sy, sw |-> csw, sh |-> csh,
     dx |-> dx, dy |-> dy, dw |-> cdw, dh |-> cdh,
     tiled |-> tiled, xtiles |-> counts[1], ytiles |-> counts[2],
     tw |-> tw, th |-> th, scaled |-> scaled, w |-> w, h |-> h, slot |-> "-"]

\* draw inside Frame.render (the texture path): the cells it blits, none or one.
draw(e, x0, x1, y0, y1) ==
    LET dx0 == NearSide(x0, e.dw)
        sx0 == NearSide(x0, e.sw)
        dx1 == FarSide(x1, e.dw)
        sx1 == FarSide(x1, e.sw)
        dy0 == NearSide(y0, e.dh)
        sy0 == NearSide(y0, e.sh)
        dy1 == FarSide(y1, e.dh)
        sy1 == FarSide(y1, e.sh)
        csw == sx1 - sx0
        csh == sy1 - sy0
        cdw == dx1 - dx0
        cdh == dy1 - dy0
        differ == csw # cdw \/ csh # cdh
        tiled == differ /\ e.tile # "off"
        counts == IF tiled
                  THEN TileCounts(e.tile, e.tile_ratio, cdw, cdh, csw, csh)
                  ELSE <<0, 0>>
        \* ctw, cth = cdw, cdh, or csw * xtiles, csh * ytiles
        ofTiles == e.tile = "integer" /\ (PyMod(cdw, csw) # 0 \/ PyMod(cdh, csh) # 0)
        ctw == IF ofTiles THEN csw * counts[1] ELSE cdw
        cth == IF ofTiles THEN csh * counts[2] ELSE cdh
        \* csw, csh = ctw, cth
        csw2 == IF tiled THEN ctw ELSE csw
        csh2 == IF tiled THEN cth ELSE csh
        scaled == differ /\ (csw2 # cdw \/ csh2 # cdh)
    IN  IF sx0 = sx1 \/ sy0 = sy1 THEN <<>>
        ELSE IF csw <= 0 \/ csh <= 0 \/ cdh <= 0 \/ cdw <= 0 THEN <<>>
        ELSE <<Cell(sx0, sy0, csw, csh, dx0, dy0, cdw, cdh, tiled, counts,
                    IF tiled THEN ctw ELSE 0, IF tiled THEN cth ELSE 0, scaled,
                    IF scaled THEN cdw ELSE csw2, IF scaled THEN cdh ELSE csh2)>>

\* draw inside Frame.sw_render (the software path).
sw_draw(e, x0, x1, y0, y1) ==
    LET dx0 == NearSide(x0, e.dw)
        sx0 == NearSide(x0, e.sw)
        dx1 == FarSide(x1, e.dw)
        sx1 == FarSide(x1, e.sw)
        dy0 == NearSide(y0, e.dh)
        sy0 == NearSide(y0, e.sh)
        dy1 == FarSide(y1, e.dh)
        sy1 == FarSide(y1, e.sh)
        tilew == sx1 - sx0
        tileh == sy1 - sy0
        dstw == dx1 - dx0
        dsth == dy1 - dy0
        differ == <<dstw, dsth>> # <<tilew, tileh>>
        tiled == differ /\ e.tile # "off"
        counts == IF tiled
                  THEN TileCounts(e.tile, e.tile_ratio, dstw, dsth, tilew, tileh)
                  ELSE <<0, 0>>
        \* surf2 = surface_unscaled((tilew * xtiles, tileh * ytiles), surf)
        s2w == tilew * counts[1]
        s2h == tileh * counts[2]
        \* tile is True: surf = surf2.subsurface((0, 0, dstw, dsth)), srcsize
        \* is left alone; otherwise srcsize = (tilew * xtiles, tileh * ytiles)
        trimmed == tiled /\ e.tile = "True"
        srcw == IF tiled /\ ~trimmed THEN s2w ELSE tilew
        srch == IF tiled /\ ~trimmed THEN s2h ELSE tileh
        surfw == IF trimmed THEN dstw ELSE srcw
        surfh == IF trimmed THEN dsth ELSE srch
        scaled == differ /\ <<dstw, dsth>> # <<srcw, srch>>
    IN  IF sx0 = sx1 \/ sy0 = sy1 \/ dx1 <= dx0 \/ dy1 <= dy0 THEN <<>>
        ELSE <<Cell(sx0, sy0, tilew, tileh, dx0, dy0, dstw, dsth, tiled, counts,
                    IF tiled THEN surfw ELSE 0, IF tiled THEN surfh ELSE 0, scaled,
                    IF scaled THEN dstw ELSE surfw, IF scaled THEN dsth ELSE surfh)>>

\* The draw closure of the chosen renderer.
Draw(renderer, e, x0, x1, y0, y1) ==
    IF renderer = "sw" THEN sw_draw(e, x0, x1, y0, y1) ELSE draw(e, x0, x1, y0, y1)

\* cells, marked as drawn by the call of draw_pattern named slot.
At(slot, cells) == [i \in DOMAIN cells |-> [cells[i] EXCEPT !.slot = slot]]

\* Frame.draw_pattern: the cells drawn, in drawing order.  The nine calls are
\* named tl, t, tr (top row), l, c, r (middle row), bl, b, br (bottom row).
draw_pattern(renderer, e, left, top, right, bottom) ==
    (IF top # 0
     THEN (IF left # 0 THEN At("tl", Draw(renderer, e, 0, left, 0, top)) ELSE <<>>)
          \o At("t", Draw(renderer, e, left, -right, 0, top))
          \o (IF right # 0 THEN At("tr", Draw(renderer, e, -right, 0, 0, top)) ELSE <<>>)
     ELSE <<>>)
    \o (IF left # 0 THEN At("l", Draw(renderer, e, 0, left, top, -bottom)) ELSE <<>>)
    \o At("c", Draw(renderer, e, left, -right, top, -bottom))
    \o (IF right # 0 THEN At("r", Draw(renderer, e, -right, 0, top, -bottom)) ELSE <<>>)
    \o (IF bottom # 0
        THEN (IF left # 0 THEN At("bl", Draw(renderer, e, 0, left, -bottom, 0)) ELSE <<>>)
             \o At("b", Draw(renderer, e, left, -right, -bottom, 0))
             \o (IF right # 0 THEN At("br", Draw(renderer, e, -right, 0, -bottom, 0)) ELSE <<>>)
        ELSE <<>>)

----------------------------------------------------------------------------
\* The rasterizer's subsurface call.  A rectangle of positive extents inside
\* the source is served.  One of a negative extent (only the software path
\* can ask for one) is outside what the source shows of the backend: the
\* backend either refuses it, and the exception ends the render, or lets it
\* through.

Degenerate(c) == c.sw <= 0 \/ c.sh <= 0

\* The index of the first degenerate cell of cells, or 0.
FirstDegenerate(cells) ==
    IF \E i \in 1..Len(cells) : Degenerate(cells[i])
    THEN CHOOSE i \in 1..Len(cells) :
            /\ Degenerate(cells[i])
            /\ \A j \in 1..(i - 1) : ~Degenerate(cells[j])
    ELSE 0

\* The outcomes of a Frame render: the raster's size, the cells blitted into
\* it, and the rectangle the backend refused, if it refused one.  With no
\* degenerate cell there is one outcome.
Composite(cells, dw, dh) ==
    LET k == FirstDegenerate(cells)
    IN  {[status |-> "ok", width |-> dw, height |-> dh,
          blits |-> cells, refused |-> <<>>]}
        \cup
        (IF k > 0
         THEN {[status |-> "raised", width |-> dw, height |-> dh,
                blits |-> SubSeq(cells, 1, k - 1), refused |-> <<cells[k]>>]}
         ELSE {})

----------------------------------------------------------------------------
\* Solid.render.

\* The side of the swatch texture.
SIZE == 10

\* color = self.color or self.style.color
SolidColor(own, style_color) == IF own # None THEN own ELSE style_color

\* if width and height: width = max(width, minw)
AtLeastOnePixel(extent, other, pixel) ==
    IF extent # 0 /\ other # 0 THEN Max(extent, pixel) ELSE extent

\* Mutant of SolidDirect: both extents must be small.
SolidDirectBoth(width, height) == width < SIZE /\ height < SIZE

\* if width < SIZE or height < SIZE: the texture is made at the size itself
SolidDirect(width, height) == width < SIZE \/ height < SIZE

\* Matrix2D(xdx, 0, 0, ydy), its entries the fractions <<num, den>>.
Matrix2D(xdx, ydy) == [xdx |-> xdx, xdy |-> <<0, 1>>, ydx |-> <<0, 1>>, ydy |-> ydy]

\* rv.forward = Matrix2D(1.0 * SIZE / width, 0, 0, 1.0 * SIZE / height)
SolidForward(width, height) == <<Matrix2D(<<SIZE, width>>, <<SIZE, height>>)>>

\* rv.reverse = Matrix2D(1.0 * width / SIZE, 0, 0, 1.0 * height / SIZE)
SolidReverse(width, height) == <<Matrix2D(<<width, SIZE>>, <<height, SIZE>>)>>

\* A Render's forward and reverse are None until set: the empty sequence
\* here, and <<matrix>> once set.
NoMatrix == <<>>

\* The Render that Solid.render returns: rw x rh is the Render's size, width
\* x height the size after the one-pixel minimum.
SolidRaster(rw, rh, width, height, color) ==
    IF color = None \/ width <= 0 \/ height <= 0
    THEN [status |-> "ok", width |-> rw, height |-> rh, blits |-> <<>>,
          forward |-> NoMatrix, reverse |-> NoMatrix]
    ELSE IF SolidDirect(width, height)
    THEN [status |-> "ok", width |-> rw, height |-> rh,
          blits |-> <<[w |-> width, h |-> height, x |-> 0, y |-> 0, color |-> color]>>,
          forward |-> NoMatrix, reverse |-> NoMatrix]
    ELSE [status |-> "ok", width |-> rw, height |-> rh,
          blits |-> <<[w |-> SIZE, h |-> SIZE, x |-> 0, y |-> 0, color |-> color]>>,
          forward |-> SolidForward(width, height),
          reverse |-> SolidReverse(width, height)]

----------------------------------------------------------------------------
\* State.

NoCall == [op |-> "none"]
NoRender == [status |-> "none"]

\* The Frames with insets from ins and, when tile is "integer", a ratio from
\* ratios.
FramesOf(xins, yins, ratios) ==
    {[class |-> "Frame", left |-> l, top |-> t, right |-> r, bottom |-> b,
      tile |-> m[1], tile_ratio |-> m[2]] :
        l \in xins, t \in yins, r \in xins, b \in yins,
        m \in ({"off", "True"} \X {DefaultRatio}) \cup ({"integer"} \X ratios)}

Frames == FramesOf(Insets, Insets, {DefaultRatio})

\* Frames with left and right insets only, with every ratio.
WideFrames == FramesOf(Insets, {0}, TileRatios)

Solids == {[class |-> "Solid", color |-> c] : c \in Colors \cup {None}}

Init ==
    /\ self \in Frames \cup Solids
    /\ pc = "constructed"
    /\ call = NoCall
    /\ rv = NoRender

InitWide ==
    /\ self \in WideFrames
    /\ pc = "constructed"
    /\ call = NoCall
    /\ rv = NoRender

\* Frame.render(width, height, st, at), where width and height are the
\* request after the style's minimums are applied, sw x sh is the size the
\* child renders at, and renderer is the renderer in use.
Frame_render(width, height, sw, sh, renderer) ==
    /\ pc = "constructed"
    /\ self.class = "Frame"
    /\ LET dw == width
           dh == height
           b == ClampedBorders(self, sw, sh, dw, dh)
           e == [sw |-> sw, sh |-> sh, dw |-> dw, dh |-> dh,
                 tile |-> self.tile, tile_ratio |-> self.tile_ratio]
           cells == draw_pattern(renderer, e, b.left, b.top, b.right, b.bottom)
       IN  /\ call' = [op |-> "Frame.render", renderer |-> renderer,
                       sw |-> sw, sh |-> sh, dw |-> dw, dh |-> dh,
                       left |-> b.left, top |-> b.top,
                       right |-> b.right, bottom |-> b.bottom]
           /\ rv' \in Composite(cells, dw, dh)
    /\ pc' = "rendered"
    /\ UNCHANGED self

\* Solid.render(width, height, st, at), with the minimums and the colour the
\* style gives, and the extent minw x minh of one drawable pixel.
Solid_render(width, height, xminimum, yminimum, style_color, minw, minh) ==
    /\ pc = "constructed"
    /\ self.class = "Solid"
    /\ LET w == Max(xminimum, width)
           h == Max(yminimum, height)
           color == SolidColor(self.color, style_color)
       IN  /\ call' = [op |-> "Solid.render", width |-> w, height |-> h,
                       color |-> color, minw |-> minw, minh |-> minh]
           /\ rv' = SolidRaster(w, h, AtLeastOnePixel(w, h, minw),
                                AtLeastOnePixel(h, w, minh), color)
    /\ pc' = "rendered"
    /\ UNCHANGED self

FrameRender ==
    /\ pc = "constructed"
    /\ self.class = "Frame"
    /\ \E width \in DstSizes, height \in DstSizes, sw \in SrcSizes, sh \in SrcSizes,
          renderer \in {"gl", "sw"} :
           Frame_render(width, height, sw, sh, renderer)

SolidRender ==
    /\ pc = "constructed"
    /\ self.class = "Solid"
    /\ \E width \in SolidSizes, height \in SolidSizes,
          xminimum \in Minimums, yminimum \in Minimums,
          style_color \in {None, "style"}, minw \in PixelSizes, minh \in PixelSizes :
           Solid_render(width, height, xminimum, yminimum, style_color, minw, minh)

\* A thin, wide Frame render: the source up to MaxWideSrc wide, the
\* destination up to MaxWideDst wide.
FrameRenderWide ==
    /\ pc = "constructed"
    /\ self.class = "Frame"
    /\ \E width \in 0..MaxWideDst, height \in 1..MaxThin,
          sw \in 0..MaxWideSrc, sh \in 1..MaxThin, renderer \in {"gl", "sw"} :
           Frame_render(width, height, sw, sh, renderer)

Next == FrameRender \/ SolidRender

NextWide == FrameRenderWide

Spec == Init /\ [][Next]_vars

SpecWide == InitWide /\ [][NextWide]_vars

----------------------------------------------------------------------------
\* What the claims read off a state.

FrameRendered == pc = "rendered" /\ call.op = "Frame.render"

SolidRendered == pc = "rendered" /\ call.op = "Solid.render"

\* The cells of a raster that cover pixel (x, y).
Covering(cells, x, y) ==
    {i \in 1..Len(cells) :
        /\ cells[i].dx <= x /\ x < cells[i].dx + cells[i].w
        /\ cells[i].dy <= y /\ y < cells[i].dy + cells[i].h}

\* cells are pairwise disjoint, lie inside [0, dw) x [0, dh) and their areas
\* sum to dw * dh: each cell is inside and each pixel is covered exactly once.
Partition(cells, dw, dh) ==
    /\ \A i \in 1..Len(cells) :
        /\ cells[i].w > 0 /\ cells[i].h > 0
        /\ 0 <= cells[i].dx /\ cells[i].dx + cells[i].w <= dw
        /\ 0 <= cells[i].dy /\ cells[i].dy + cells[i].h <= dh
    /\ \A x \in 0..(dw - 1), y \in 0..(dh - 1) :
        Cardinality(Covering(cells, x, y)) = 1

CeilDiv(d, s) == (d + s - 1) \div s

\* q = floor(n / d) for d > 0, by its defining inequalities.
IsFloor(q, n, d) == q * d <= n /\ n < (q + 1) * d

\* Two fractions <<num, den>> are the same number.
SameFraction(p, q) == p[1] * q[2] = q[1] * p[2]

----------------------------------------------------------------------------
\* C1: the cells a Frame blits are pairwise disjoint, lie inside the
\* destination and cover it exactly, for every source size sw, sh >= 1.
C1_ExactPartition ==
    (FrameRendered /\ call.sw >= 1 /\ call.sh >= 1)
        => Partition(rv.blits, call.dw, call.dh)

\* C2: with sw, sh >= 2, every corner cell that is blitted keeps its source
\* size, which is the clamped border size, is neither tiled nor scaled, and
\* sits in the matching corner of the destination.
C2_CornersPreserved ==
    (FrameRendered /\ call.sw >= 2 /\ call.sh >= 2) =>
        \A i \in 1..Len(rv.blits) :
            LET c == rv.blits[i]
                isLeft == c.slot \in {"tl", "bl"}
                isTop == c.slot \in {"tl", "tr"}
            IN  c.slot \in {"tl", "tr", "bl", "br"} =>
                    /\ c.w = c.sw /\ c.h = c.sh
                    /\ ~c.tiled /\ ~c.scaled
                    /\ c.sw = (IF isLeft THEN call.left ELSE call.right)
                    /\ c.sh = (IF isTop THEN call.top ELSE call.bottom)
                    /\ c.dx = (IF isLeft THEN 0 ELSE call.dw - c.w)
                    /\ c.dy = (IF isTop THEN 0 ELSE call.dh - c.h)
                    /\ c.sx = (IF isLeft THEN 0 ELSE call.sw - c.sw)
                    /\ c.sy = (IF isTop THEN 0 ELSE call.sh - c.sh)

\* C2's case: all four corners are blitted into a destination of another
\* size than the source, whose centre is tiled.
C2_Witness ==
    /\ FrameRendered /\ call.sw >= 2 /\ call.sh >= 2
    /\ call.dw # call.sw /\ call.dh # call.sh
    /\ {rv.blits[i].slot : i \in 1..Len(rv.blits)}
         = {"tl", "t", "tr", "l", "c", "r", "bl", "b", "br"}
    /\ \E i \in 1..Len(rv.blits) : rv.blits[i].slot = "c" /\ rv.blits[i].tiled

\* C3: with sw >= 2 the clamped left and right are non-negative and sum to at
\* most min(left + right, sw - 2, dw), so the source centre column is at
\* least 2 wide and the destination centre column is not negative; the same
\* vertically with sh >= 2.
C3_BordersClamped ==
    FrameRendered =>
        /\ call.sw >= 2 =>
            /\ call.left >= 0 /\ call.right >= 0
            /\ call.left + call.right <= self.left + self.right
            /\ call.left + call.right <= call.sw - 2
            /\ call.left + call.right <= call.dw
            /\ call.sw - call.left - call.right >= 2
            /\ call.dw - call.left - call.right >= 0
        /\ call.sh >= 2 =>
            /\ call.top >= 0 /\ call.bottom >= 0
            /\ call.top + call.bottom <= self.top + self.bottom
            /\ call.top + call.bottom <= call.sh - 2
            /\ call.top + call.bottom <= call.dh
            /\ call.sh - call.top - call.bottom >= 2
            /\ call.dh - call.top - call.bottom >= 0

\* C3's case: the insets ask for more than the source and the destination
\* can give, and are cut.
C3_Witness ==
    /\ FrameRendered /\ call.sw >= 2 /\ call.sh >= 2
    /\ self.left + self.right > call.sw - 2
    /\ self.top + self.bottom > call.dh
    /\ call.left + call.right < self.left + self.right
    /\ call.top + call.bottom < self.top + self.bottom

\* C4: in integer tile mode, on an axis whose destination extent is an exact
\* multiple of the source extent, the tile count is the quotient and the tiled
\* extent is the destination extent, whatever the other axis.
C4_ExactMultipleKept ==
    (FrameRendered /\ self.tile = "integer") =>
        \A i \in 1..Len(rv.blits) :
            LET c == rv.blits[i]
            IN  (c.tiled /\ c.sw > 0 /\ c.sh > 0) =>
                    /\ c.dw % c.sw = 0 => (c.xtiles = c.dw \div c.sw /\ c.tw = c.dw)
                    /\ c.dh % c.sh = 0 => (c.ytiles = c.dh \div c.sh /\ c.th = c.dh)

\* The tile count C5 states for source extent s, destination extent d (not a
\* multiple of s) and ratio r.
C5_Count(d, s, r) ==
    IF (d % s) * r[2] < r[1] * s THEN Max(1, CeilDiv(d, s) - 1) ELSE CeilDiv(d, s)

\* C5: in integer tile mode, on an axis with s > 0, d > 0 and d not a multiple
\* of s, the tile count is max(1, ceil(d/s) - 1) if (d mod s)/s < tile_ratio
\* and ceil(d/s) otherwise, and the block of count * s is scaled to exactly d;
\* 10 -> 15 gives 2 tiles at ratio 0.5 and 1 tile at ratio 0.51.
C5_IntegerTieBreak ==
    (FrameRendered /\ self.tile = "integer") =>
        \A i \in 1..Len(rv.blits) :
            LET c == rv.blits[i]
                r == self.tile_ratio
            IN  (c.sw > 0 /\ c.sh > 0) =>
                    /\ (c.dw % c.sw # 0) =>
                        /\ c.tiled /\ c.scaled
                        /\ c.xtiles = C5_Count(c.dw, c.sw, r)
                        /\ c.tw = c.xtiles * c.sw
                        /\ c.w = c.dw
                    /\ (c.dh % c.sh # 0) =>
                        /\ c.tiled /\ c.scaled
                        /\ c.ytiles = C5_Count(c.dh, c.sh, r)
                        /\ c.th = c.ytiles * c.sh
                        /\ c.h = c.dh
                    /\ (c.sw = 10 /\ c.dw = 15 /\ r = <<1, 2>>) => c.xtiles = 2
                    /\ (c.sw = 10 /\ c.dw = 15 /\ r = <<51, 100>>) => c.xtiles = 1

\* C5's case: a 10 wide cell tiled into 15 at ratio 0.5, the leftover
\* fraction equal to the ratio.
C5_Witness ==
    /\ FrameRendered /\ self.tile = "integer" /\ self.tile_ratio = <<1, 2>>
    /\ \E i \in 1..Len(rv.blits) :
        /\ rv.blits[i].sw = 10 /\ rv.blits[i].dw = 15
        /\ rv.blits[i].xtiles = 2 /\ rv.blits[i].tw = 20 /\ rv.blits[i].scaled

\* C6: with tile=True, a cell whose sizes differ gets max(1, ceil(d/s)) tiles
\* on each axis, is cropped to exactly the destination extent, and gets no
\* scale pass, in both draw paths.
C6_SimpleTileNoScale ==
    (FrameRendered /\ self.tile = "True") =>
        \A i \in 1..Len(rv.blits) :
            LET c == rv.blits[i]
            IN  ((c.sw # c.dw \/ c.sh # c.dh) /\ c.sw > 0 /\ c.sh > 0) =>
                    /\ c.tiled
                    /\ c.xtiles = Max(1, CeilDiv(c.dw, c.sw))
                    /\ c.ytiles = Max(1, CeilDiv(c.dh, c.sh))
                    /\ c.xtiles * c.sw >= c.dw /\ c.ytiles * c.sh >= c.dh
                    /\ c.tw = c.dw /\ c.th = c.dh
                    /\ c.w = c.dw /\ c.h = c.dh
                    /\ ~c.scaled

\* The clamp C7 and the code start from: min(bw, extent - 2, dest).
C7_Border(bw, s, d) == Min3(bw, s - 2, d)

\* C7 as stated: if xb > 0 and left + right > 0 then destLeft is
\* left * xb // (left + right) and destRight is xb - destLeft, so they sum to
\* xb; otherwise both are 0.  The same for top and bottom.
C7_SplitSumsToBorder ==
    FrameRendered =>
        LET bw == self.left + self.right
            bh == self.top + self.bottom
            xb == C7_Border(bw, call.sw, call.dw)
            yb == C7_Border(bh, call.sh, call.dh)
        IN  /\ IF xb > 0 /\ bw > 0
               THEN /\ IsFloor(call.left, self.left * xb, bw)
                    /\ call.right = xb - call.left
               ELSE call.left = 0 /\ call.right = 0
            /\ IF yb > 0 /\ bh > 0
               THEN /\ IsFloor(call.top, self.top * yb, bh)
                    /\ call.bottom = yb - call.top
               ELSE call.top = 0 /\ call.bottom = 0

\* C7 amended: if xb # 0 and left + right > 0 then destLeft is the floor of
\* left * xb / (left + right) and destRight the floor of
\* right * xb / (left + right), each floored on its own, so their sum is xb or
\* xb - 1; otherwise both are 0.  The same for top and bottom.
C7_SplitFloorsBoth ==
    FrameRendered =>
        LET bw == self.left + self.right
            bh == self.top + self.bottom
            xb == C7_Border(bw, call.sw, call.dw)
            yb == C7_Border(bh, call.sh, call.dh)
        IN  /\ IF xb # 0 /\ bw > 0
               THEN /\ IsFloor(call.left, self.left * xb, bw)
                    /\ IsFloor(call.right, self.right * xb, bw)
                    /\ xb - 1 <= call.left + call.right
                    /\ call.left + call.right <= xb
               ELSE call.left = 0 /\ call.right = 0
            /\ IF yb # 0 /\ bh > 0
               THEN /\ IsFloor(call.top, self.top * yb, bh)
                    /\ IsFloor(call.bottom, self.bottom * yb, bh)
                    /\ yb - 1 <= call.top + call.bottom
                    /\ call.top + call.bottom <= yb
               ELSE call.top = 0 /\ call.bottom = 0

\* C7's case: both insets are set and the clamp leaves an odd border to
\* split, so each floor drops a half and the sum falls one short.
C7_Witness ==
    /\ FrameRendered /\ call.sw >= 2
    /\ self.left > 0 /\ self.right > 0
    /\ C7_Border(self.left + self.right, call.sw, call.dw) > 0
    /\ call.left + call.right
         = C7_Border(self.left + self.right, call.sw, call.dw) - 1

\* C8: rendered at the source's size (dw = sw, dh = sh, both >= 2), every cell
\* a Frame blits has its destination rectangle equal to its source rectangle
\* and is neither tiled nor scaled, and the cells cover the raster exactly.
C8_IdentityRender ==
    (FrameRendered /\ call.dw = call.sw /\ call.dh = call.sh
        /\ call.sw >= 2 /\ call.sh >= 2) =>
        /\ rv.status = "ok"
        /\ \A i \in 1..Len(rv.blits) :
            LET c == rv.blits[i]
            IN  /\ c.dx = c.sx /\ c.dy = c.sy
                /\ c.dw = c.sw /\ c.dh = c.sh
                /\ c.w = c.sw /\ c.h = c.sh
                /\ ~c.tiled /\ ~c.scaled
        /\ Partition(rv.blits, call.sw, call.sh)

\* C8's case: a tiling Frame with all four borders rendered at its source's
\* size, all nine cells blitted.
C8_Witness ==
    /\ FrameRendered /\ call.dw = call.sw /\ call.dh = call.sh
    /\ call.sw >= 2 /\ call.sh >= 2
    /\ self.tile # "off"
    /\ Len(rv.blits) = 9

\* What C9 states of a Solid render at width x height with colour color.
C9_Cases(width, height, color) ==
    IF color = None \/ width <= 0 \/ height <= 0
    THEN rv.blits = <<>>
    ELSE /\ Len(rv.blits) = 1
         /\ rv.blits[1].x = 0 /\ rv.blits[1].y = 0
         /\ (width < 10 \/ height < 10) =>
                /\ rv.blits[1].w = width /\ rv.blits[1].h = height
                /\ rv.forward = NoMatrix /\ rv.reverse = NoMatrix
         /\ (width >= 10 /\ height >= 10) =>
                /\ rv.blits[1].w = 10 /\ rv.blits[1].h = 10
                /\ rv.forward # NoMatrix /\ rv.reverse # NoMatrix
                /\ LET f == rv.forward[1]
                       r == rv.reverse[1]
                   IN  /\ SameFraction(f.xdx, <<10, width>>)
                       /\ SameFraction(f.ydy, <<10, height>>)
                       /\ SameFraction(r.xdx, <<width, 10>>)
                       /\ SameFraction(r.ydy, <<height, 10>>)
                       /\ f.xdy[1] = 0 /\ f.ydx[1] = 0
                       /\ r.xdy[1] = 0 /\ r.ydx[1] = 0
                       /\ f.xdx[1] * r.xdx[1] = f.xdx[2] * r.xdx[2]
                       /\ f.ydy[1] * r.ydy[1] = f.ydy[2] * r.ydy[2]
                       /\ (width = 500 /\ height = 500) =>
                            /\ SameFraction(f.xdx, <<2, 100>>)
                            /\ SameFraction(f.ydy, <<2, 100>>)
                            /\ SameFraction(r.xdx, <<50, 1>>)
                            /\ SameFraction(r.ydy, <<50, 1>>)

\* C9 as stated: the cases of Solid.render read on the width and height
\* clamped to the style's minimums.
C9_SolidCases ==
    SolidRendered => C9_Cases(call.width, call.height, call.color)

\* C9 amended: the cases of Solid.render read on the width and height clamped
\* to the style's minimums and then, when both are nonzero, raised to at least
\* the extent (minw, minh) of one drawable pixel: no blit without a colour or
\* with a width or height <= 0; otherwise one blit at (0, 0), of a texture of
\* that size and no transform when either is below 10, and of a 10 x 10
\* texture with forward = diag(10/width, 10/height) and its exact inverse
\* reverse = diag(width/10, height/10) when both are at least 10.
C9_SolidCasesOnePixel ==
    SolidRendered =>
        LET both == call.width # 0 /\ call.height # 0
        IN  C9_Cases(IF both THEN Max(call.width, call.minw) ELSE call.width,
                     IF both THEN Max(call.height, call.minh) ELSE call.height,
                     call.color)

\* C9's case: a coloured Solid rendered at 500 x 500 through the 10 x 10
\* swatch.
C9_Witness ==
    /\ SolidRendered /\ call.color # None
    /\ call.width = 500 /\ call.height = 500
    /\ Len(rv.blits) = 1 /\ rv.blits[1].w = 10 /\ rv.forward # NoMatrix

\* What C10 compares of a cell.
C10_View(cells) ==
    [i \in 1..Len(cells) |->
        [slot |-> cells[i].slot,
         sx |-> cells[i].sx, sy |-> cells[i].sy,
         sw |-> cells[i].sw, sh |-> cells[i].sh,
         dx |-> cells[i].dx, dy |-> cells[i].dy,
         xtiles |-> cells[i].xtiles, ytiles |-> cells[i].ytiles,
         w |-> cells[i].w, h |-> cells[i].h]]

\* The cells the other draw path blits for the call of this state.
C10_OtherPath ==
    draw_pattern(IF call.renderer = "sw" THEN "gl" ELSE "sw",
                 [sw |-> call.sw, sh |-> call.sh, dw |-> call.dw, dh |-> call.dh,
                  tile |-> self.tile, tile_ratio |-> self.tile_ratio],
                 call.left, call.top, call.right, call.bottom)

\* C10: for the same source size (sw, sh >= 0), destination size, borders,
\* tile mode and ratio, the software path renders as the texture path does:
\* the same cells in the same order, each with the same source rectangle,
\* destination offset, tile counts and final size.
C10_BackendsAgree ==
    FrameRendered =>
        /\ rv.status = "ok"
        /\ C10_View(rv.blits) = C10_View(C10_OtherPath)

\* C11: in both draw paths, for every source size sw, sh >= 0 and destination
\* size dw, dh >= 0, every cell that reaches subregion extraction (whether the
\* backend serves or refuses it) has strictly positive source width, source
\* height, destination width and destination height.
C11_DegenerateSkipped ==
    FrameRendered =>
        LET reached == rv.blits \o rv.refused
        IN  \A i \in 1..Len(reached) :
                /\ reached[i].sw > 0 /\ reached[i].sh > 0
                /\ reached[i].dw > 0 /\ reached[i].dh > 0

====
